---- MODULE Spec2Model ----
(***************************************************************************)
(* Availability engine of the voice-agent tools library:                   *)
(* calendar_tools/tools/get_availability.py.                               *)
(*                                                                         *)
(* Time is counted in ticks since 1970-01-01T00:00 (a Thursday); one       *)
(* minute is MinuteTicks ticks, so instants that are not on a whole minute *)
(* exist.  A datetime is a record [aware, off, wall]: wall is the wall     *)
(* clock reading in ticks, off the UTC offset in hours of an aware         *)
(* datetime.  An ISO string is a record [kind, wall, off]; kind is how the *)
(* zone is written ("Z", "offset", "naive") or "bad" for text that         *)
(* datetime.fromisoformat rejects.                                         *)
(***************************************************************************)
EXTENDS Integers, Sequences, FiniteSets, TLC

\* ------------------------------------------------------------------ bounds
\* Calendar days 0..MaxDay are the days requests and busy periods lie on.
MaxDay == 1
\* Largest number of busy entries the calendar source answers with.
MaxBusy == 2
\* Clock resolution: ticks per minute.
MinuteTicks == 2

\* ------------------------------------------------------- time arithmetic
HourTicks == 60 * MinuteTicks
DayTicks == 24 * HourTicks

\* Wall-clock reading of day d, hour h, plus t ticks.
At(d, h, t) == d * DayTicks + h * HourTicks + t

None == [some |-> FALSE]
Some(x) == [some |-> TRUE, val |-> x]

Aware(wall, off) == [aware |-> TRUE, off |-> off, wall |-> wall]
Naive(wall) == [aware |-> FALSE, off |-> 0, wall |-> wall]

\* The point in time an aware datetime denotes (for a naive one, its wall).
Instant(dt) == dt.wall - dt.off * HourTicks

\* datetime.date(): the calendar day of the wall clock reading.
date(dt) == dt.wall \div DayTicks

\* date.weekday(): Monday = 0 ... Sunday = 6; day 0 is a Thursday.
weekday(d) == (d + 3) % 7

\* datetime + timedelta(days = n)
plus_days(dt, n) == [dt EXCEPT !.wall = dt.wall + n * DayTicks]

\* datetime.astimezone(timezone.utc)
astimezone_utc(dt) == Aware(Instant(dt), 0)

\* Ordering of datetimes raises TypeError between a naive and an aware one.
Comparable(a, b) == a.aware = b.aware
Lt(a, b) == Instant(a) < Instant(b)

\* Python's min(a, b) and max(a, b): the first argument wins a tie.
min(a, b) == IF Lt(b, a) THEN b ELSE a
max(a, b) == IF Lt(a, b) THEN b ELSE a

\* datetime.isoformat(): the wall clock reading followed by the offset.
isoformat(dt) ==
    IF dt.aware THEN [kind |-> "offset", wall |-> dt.wall, off |-> dt.off]
    ELSE [kind |-> "naive", wall |-> dt.wall, off |-> 0]

\* Whether datetime.fromisoformat accepts the text.
parses(s) == s.kind # "bad"

\* _parse_datetime: a trailing 'Z' is read as '+00:00'.
parse_datetime(s) ==
    IF s.kind = "Z" THEN Aware(s.wall, 0)
    ELSE IF s.kind = "offset" THEN Aware(s.wall, s.off)
    ELSE Naive(s.wall)

\* int(x / y) for the integers x, y > 0: truncation towards zero.
int_div(x, y) == IF x >= 0 THEN x \div y ELSE -((-x) \div y)

\* pytz zones of the model, none of which has daylight saving time.
utcoffset(tz) ==
    IF tz = "Asia/Tokyo" THEN 9
    ELSE IF tz = "Pacific/Honolulu" THEN -10
    ELSE 0
known_zone(tz) == tz \in {"UTC", "Asia/Tokyo", "Pacific/Honolulu"}

SeqToSet(s) == {s[i] : i \in DOMAIN s}

\* ------------------------------------------- _generate_working_hours_slots
\* Mutation of working_hour: the hour is combined with one fixed date, not
\* with the day d.
working_hour_of_one_date(d, hour, time_zone) ==
    IF time_zone.some
    THEN astimezone_utc(Aware(At(0, hour, 0), utcoffset(time_zone.val)))
    ELSE Aware(At(0, hour, 0), 0)

\* d @ hour o'clock in the zone of the request, converted to UTC; without a
\* zone, d @ hour o'clock UTC.
working_hour(d, hour, time_zone) ==
    IF time_zone.some
    THEN astimezone_utc(Aware(At(d, hour, 0), utcoffset(time_zone.val)))
    ELSE Aware(At(d, hour, 0), 0)

\* The exception one pass of the loop body raises for a working day, or "".
day_error(start_time, end_time, hs, he, time_zone) ==
    IF time_zone.some /\ ~known_zone(time_zone.val) THEN "UnknownTimeZoneError"
    ELSE IF hs \notin 0..23 \/ he \notin 0..23 THEN "ValueError"
    ELSE IF ~start_time.aware \/ ~end_time.aware THEN "TypeError"
    ELSE ""

\* Mutation of is_working_day: every day is a working day.
is_working_day_always(current_date, working_days) == TRUE

\* Line 127.
is_working_day(current_date, working_days) ==
    weekday(current_date) \in SeqToSet(working_days)

\* Mutation of clamped_slot: the window is not cut to the requested range.
clamped_slot_whole_day(d, start_time, end_time, hs, he, time_zone) ==
    [start |-> working_hour(d, hs, time_zone), end |-> working_hour(d, he, time_zone)]

\* Mutation of clamped_slot: only the start is cut to the requested range.
clamped_slot_start_only(d, start_time, end_time, hs, he, time_zone) ==
    [start |-> IF Lt(working_hour(d, hs, time_zone), start_time)
               THEN start_time ELSE working_hour(d, hs, time_zone),
     end |-> working_hour(d, he, time_zone)]

\* The window of the working day d, clamped to the requested range.
clamped_slot(d, start_time, end_time, hs, he, time_zone) ==
    LET day_start == working_hour(d, hs, time_zone)
        day_end == working_hour(d, he, time_zone)
        slot_start == IF Lt(day_start, start_time) THEN start_time ELSE day_start
        slot_end == IF Lt(end_time, day_end) THEN end_time ELSE day_end
    IN [start |-> slot_start, end |-> slot_end]

RECURSIVE working_days_loop(_, _, _, _, _, _, _, _, _)
working_days_loop(current_date, end_date, start_time, end_time, hs, he, working_days, time_zone, slots) ==
    IF current_date > end_date THEN [ok |-> TRUE, slots |-> slots]
    ELSE IF ~is_working_day(current_date, working_days)
    THEN working_days_loop(current_date + 1, end_date, start_time, end_time,
                           hs, he, working_days, time_zone, slots)
    ELSE IF day_error(start_time, end_time, hs, he, time_zone) # ""
    THEN [ok |-> FALSE, exc |-> day_error(start_time, end_time, hs, he, time_zone)]
    ELSE LET w == clamped_slot(current_date, start_time, end_time, hs, he, time_zone)
             kept == IF Lt(w.start, w.end)
                     THEN Append(slots, [start |-> isoformat(w.start),
                                         end |-> isoformat(w.end)])
                     ELSE slots
         IN working_days_loop(current_date + 1, end_date, start_time, end_time,
                              hs, he, working_days, time_zone, kept)

generate_working_hours_slots(start_time, end_time, hs, he, working_days, time_zone) ==
    working_days_loop(date(start_time), date(end_time), start_time, end_time,
                      hs, he, working_days, time_zone, <<>>)

\* ----------------------------------------------------- _filter_busy_periods
\* The exception the overlap test of one busy entry against one slot raises,
\* or "": both timestamps are parsed first, then busy_start < slot_end is
\* evaluated and, only when it is true, busy_end > slot_start.
overlap_error(busy, slot_start, slot_end) ==
    IF ~parses(busy.start) \/ ~parses(busy.end) THEN "ValueError"
    ELSE IF ~Comparable(parse_datetime(busy.start), slot_end) THEN "TypeError"
    ELSE IF Lt(parse_datetime(busy.start), slot_end)
            /\ ~Comparable(parse_datetime(busy.end), slot_start) THEN "TypeError"
    ELSE ""

\* Mutation of overlaps: a busy period that touches the slot is selected.
overlaps_or_touches(busy, slot_start, slot_end) ==
    ~Lt(slot_end, parse_datetime(busy.start)) /\ ~Lt(parse_datetime(busy.end), slot_start)

overlaps(busy, slot_start, slot_end) ==
    Lt(parse_datetime(busy.start), slot_end) /\ Lt(slot_start, parse_datetime(busy.end))

RECURSIVE overlapping_busy(_, _, _)
overlapping_busy(busy_periods, slot_start, slot_end) ==
    IF busy_periods = <<>> THEN <<>>
    ELSE LET busy == Head(busy_periods)
             rest == overlapping_busy(Tail(busy_periods), slot_start, slot_end)
         IN IF overlaps(busy, slot_start, slot_end)
            THEN <<(<<parse_datetime(busy.start), parse_datetime(busy.end)>>)>> \o rest
            ELSE rest

\* Order of the tuples (busy_start, busy_end) under list.sort().
tuple_lt(a, b) ==
    \/ Lt(a[1], b[1])
    \/ Instant(a[1]) = Instant(b[1]) /\ Lt(a[2], b[2])

RECURSIVE insert_sorted(_, _)
insert_sorted(x, s) ==
    IF s = <<>> THEN <<x>>
    ELSE IF tuple_lt(x, Head(s)) THEN <<x>> \o s
    ELSE <<Head(s)>> \o insert_sorted(x, Tail(s))

\* list.sort(): stable, ascending.
RECURSIVE sort(_)
sort(s) ==
    IF s = <<>> THEN <<>>
    ELSE insert_sorted(s[Len(s)], sort(SubSeq(s, 1, Len(s) - 1)))

\* Mutation of gap_before: the tests are current_time <= ..., not <.
gap_before_or_equal(current_time, busy_start, slot_end, free_slots) ==
    IF ~Lt(busy_start, current_time) /\ ~Lt(min(busy_start, slot_end), current_time)
    THEN Append(free_slots, [start |-> isoformat(current_time),
                             end |-> isoformat(min(busy_start, slot_end))])
    ELSE free_slots

\* Lines 191-198: the free time between current_time and the busy period.
gap_before(current_time, busy_start, slot_end, free_slots) ==
    IF Lt(current_time, busy_start) /\ Lt(current_time, min(busy_start, slot_end))
    THEN Append(free_slots, [start |-> isoformat(current_time),
                             end |-> isoformat(min(busy_start, slot_end))])
    ELSE free_slots

\* Mutations of gap_after: the trailing free time is forgotten; the trailing
\* segment is emitted without the test current_time < slot_end.
gap_after_forgotten(current_time, slot_end, free_slots) == free_slots
gap_after_unguarded(current_time, slot_end, free_slots) ==
    Append(free_slots, [start |-> isoformat(current_time), end |-> isoformat(slot_end)])

\* Lines 203-208: the free time after all busy periods of the slot.
gap_after(current_time, slot_end, free_slots) ==
    IF Lt(current_time, slot_end)
    THEN Append(free_slots, [start |-> isoformat(current_time),
                             end |-> isoformat(slot_end)])
    ELSE free_slots

\* Mutation of advance: the cursor is set to busy_end without max().
advance_without_max(current_time, busy_end) == busy_end

\* Line 201: current_time moves to the end of the busy period.
advance(current_time, busy_end) == max(current_time, busy_end)

\* Lines 187-208: the walk over the sorted busy tuples of one slot.
RECURSIVE free_segments(_, _, _, _)
free_segments(busy, current_time, slot_end, free_slots) ==
    IF busy = <<>> THEN gap_after(current_time, slot_end, free_slots)
    ELSE free_segments(Tail(busy), advance(current_time, Head(busy)[2]), slot_end,
                       gap_before(current_time, Head(busy)[1], slot_end, free_slots))

RECURSIVE filter_busy_periods(_, _, _)
filter_busy_periods(working_slots, busy_periods, free_slots) ==
    IF working_slots = <<>> THEN [ok |-> TRUE, free_slots |-> free_slots]
    ELSE LET slot_start == parse_datetime(Head(working_slots).start)
             slot_end == parse_datetime(Head(working_slots).end)
             errors == {i \in DOMAIN busy_periods :
                           overlap_error(busy_periods[i], slot_start, slot_end) # ""}
             first == CHOOSE i \in errors : \A j \in errors : i <= j
         IN IF errors # {}
            THEN [ok |-> FALSE,
                  exc |-> overlap_error(busy_periods[first], slot_start, slot_end)]
            ELSE filter_busy_periods(
                     Tail(working_slots), busy_periods,
                     free_segments(sort(overlapping_busy(busy_periods, slot_start, slot_end)),
                                   slot_start, slot_end, free_slots))

\* Lines 174-185: the sorted list overlapping_busy of every working slot.
sorted_overlapping_busy(working_slots, busy_periods) ==
    [w \in DOMAIN working_slots |->
        sort(overlapping_busy(busy_periods, parse_datetime(working_slots[w].start),
                              parse_datetime(working_slots[w].end)))]

\* Mutation of duration_minutes: start and end are exchanged.
duration_minutes_swapped(slot) ==
    int_div(Instant(parse_datetime(slot.start)) - Instant(parse_datetime(slot.end)),
            MinuteTicks)

\* Lines 95-99: the duration of every free slot, in whole minutes.
duration_minutes(slot) ==
    int_div(Instant(parse_datetime(slot.end)) - Instant(parse_datetime(slot.start)),
            MinuteTicks)

with_durations(free_slots) ==
    [i \in DOMAIN free_slots |->
        [start |-> free_slots[i].start, end |-> free_slots[i].end,
         duration_minutes |-> duration_minutes(free_slots[i])]]

\* ------------------------------------------------------------------ state
VARIABLES
    pc,               \* "idle", "query" (the freebusy request is out), "done"
    args,             \* the arguments get_availability was called with
    working_days,     \* the locals of get_availability, once defaulted
    calendar_ids,
    start_time,
    end_time,
    freebusy_result,  \* the 'calendars' object the calendar source answered
    busy_periods,
    working_slots,
    free_slots,
    selected_busy,    \* the sorted list overlapping_busy of every working slot
    outcome,          \* what the call returned or raised
    response,         \* what the endpoint answered for it
    frames,           \* the locals of each of several concurrent invocations
    trial,            \* two calls of _filter_busy_periods on related busy lists
    webhook           \* one request to the Vapi webhook and its tool calls

vars == <<pc, args, working_days, calendar_ids, start_time, end_time,
          freebusy_result, busy_periods, working_slots, free_slots, selected_busy,
          outcome, response, frames, trial, webhook>>

Raised(type, message, cause) ==
    [kind |-> "raised", type |-> type, message |-> message, cause |-> cause]
Returned(result) == [kind |-> "returned", result |-> result]
NoOutcome == [kind |-> "none"]

\* ----------------------------------------------------------------- inputs
\* 16:59:30 when a tick is half a minute: one tick before 17:00.
BeforeFive(d) == At(d, 17, 0) - 1

\* The two working hours as passed: both omitted, 9 and 17, equal, reversed.
HourInputs ==
    {<<None, None>>, <<Some(9), Some(17)>>, <<Some(9), Some(9)>>, <<Some(17), Some(9)>>}

WorkingDaysInputs ==
    {None, Some(<<>>), Some(<<5, 3>>), Some(<<0, 7>>), Some(<<-1>>)}

\* Range bounds: midnight, noon, and one tick before 17:00 of day 0.
StartInputs ==
    {None, Some(Aware(At(0, 0, 0), 0)), Some(Aware(At(0, 12, 0), 0)),
     Some(Aware(BeforeFive(0), 0))}

\* Range bounds: midnight of day 0 and of day MaxDay, 11:00 of day 0, one
\* tick after noon of day MaxDay; and a datetime without a zone.
EndInputs ==
    {None, Some(Naive(At(MaxDay, 23, 0)))}
    \cup {Some(Aware(At(d, 0, 0), 0)) : d \in {0, MaxDay}}
    \cup {Some(Aware(At(0, 11, 0), 0)), Some(Aware(At(MaxDay, 12, 1), 0))}

TodayInputs == {0, MaxDay}

TimeZoneInputs == {None, Some("Asia/Tokyo"), Some("Pacific/Honolulu")}

CalendarIdsInputs == {None, Some(<<"team", "primary">>)}

\* The calls of the model: every combination with working hours passed, and
\* those without working hours that name no zone and no calendar.
Arguments ==
    {a \in {[calendar_ids |-> c, start_time |-> s, end_time |-> e,
             working_hours_start |-> h[1], working_hours_end |-> h[2],
             working_days |-> d, time_zone |-> z] :
                c \in CalendarIdsInputs, s \in StartInputs, e \in EndInputs,
                h \in HourInputs, d \in WorkingDaysInputs, z \in TimeZoneInputs} :
        a.working_hours_start.some \/ (~a.time_zone.some /\ ~a.calendar_ids.some)}

\* Timestamps as the calendar source writes them.
Z(wall) == [kind |-> "Z", wall |-> wall, off |-> 0]
Malformed == [kind |-> "bad", wall |-> 0, off |-> 0]
Busy(s, e) == [start |-> Z(s), end |-> Z(e)]

\* The busy entries the source holds for each calendar.  primary: two that
\* overlap in part (the second ends off the minute), one whose end is before
\* its start, one whose start is no timestamp.  team: one over the night
\* from day 0 to day 1, one of zero length, one that is exactly 09:00-17:00.
Calendars == {"primary", "team"}

BusyEntries(c) ==
    IF c = "primary"
    THEN {Busy(At(0, 10, 0), At(0, 12, 0)), Busy(At(0, 11, 0), BeforeFive(0)),
          Busy(At(0, 12, 0), At(0, 10, 0)),
          [start |-> Malformed, end |-> Z(At(0, 12, 0))]}
    ELSE {Busy(At(0, 10, 0), At(1, 10, 0)), Busy(At(0, 11, 0), At(0, 11, 0)),
          Busy(At(0, 9, 0), At(0, 17, 0))}

TaggedEntries == UNION {{<<c, e>> : e \in BusyEntries(c)} : c \in Calendars}

\* The answers of the source: at most MaxBusy busy entries, each in the list
\* of its calendar; a calendar without entries is absent from the answer.
TaggedAnswers == UNION {[1..n -> TaggedEntries] : n \in 0..MaxBusy}

RECURSIVE entries_of(_, _)
entries_of(tagged, c) ==
    IF tagged = <<>> THEN <<>>
    ELSE IF Head(tagged)[1] = c THEN <<Head(tagged)[2]>> \o entries_of(Tail(tagged), c)
    ELSE entries_of(Tail(tagged), c)

AnswerOf(tagged) ==
    [c \in {tagged[i][1] : i \in DOMAIN tagged} |-> [busy |-> entries_of(tagged, c)]]

\* --------------------------------------------------------- get_availability
\* Mutation of hours_invalid: equal hours pass.
hours_invalid_strict(hs, he) == hs > he

\* Line 40.
hours_invalid(hs, he) == hs >= he

\* Mutation of days_invalid: the working days are not checked.
days_invalid_never(days) == FALSE

\* Mutation of days_invalid: negative values pass.
days_invalid_upper_only(days) == \E i \in DOMAIN days : days[i] > 6

\* Line 46.
days_invalid(days) == \E i \in DOMAIN days : days[i] < 0 \/ days[i] > 6

HoursMessage == "working_hours_start must be less than working_hours_end"
DaysMessage == "working_days must contain values between 0-6 (Monday=0, Sunday=6)"
FailedMessage == "Failed to get availability"

\* Lines 10-11: the hours of the signature when the call passes none.
working_hours_start(a) ==
    IF a.working_hours_start.some THEN a.working_hours_start.val ELSE 9

working_hours_end(a) ==
    IF a.working_hours_end.some THEN a.working_hours_end.val ELSE 17

default_working_days(a) ==
    IF a.working_days.some THEN a.working_days.val ELSE <<0, 1, 2, 3, 4>>

default_calendar_ids(a) ==
    IF a.calendar_ids.some THEN a.calendar_ids.val ELSE <<"primary">>

\* datetime.now(timezone.utc) cut to midnight, on the day `today`.
\* Mutation of default_start_time: today's midnight even when a range start
\* is passed.
default_start_time_now(a, today) == Aware(At(today, 0, 0), 0)

default_start_time(a, today) ==
    IF a.start_time.some THEN a.start_time.val ELSE Aware(At(today, 0, 0), 0)

\* Mutation of default_end_time: seven days from today's midnight, whatever
\* the range start.
default_end_time_from_today(a, today) ==
    IF a.end_time.some THEN a.end_time.val ELSE Aware(At(today + 7, 0, 0), 0)

default_end_time(a, today) ==
    IF a.end_time.some THEN a.end_time.val ELSE plus_days(default_start_time(a, today), 7)

\* Mutation of extract_busy_periods: only the first requested calendar is read.
extract_first_calendar_only(ids, calendars_data) ==
    IF ids = <<>> \/ Head(ids) \notin DOMAIN calendars_data THEN <<>>
    ELSE [i \in DOMAIN calendars_data[Head(ids)].busy |->
             [start |-> calendars_data[Head(ids)].busy[i].start,
              end |-> calendars_data[Head(ids)].busy[i].end,
              calendar_id |-> Head(ids)]]

\* Lines 74-85: the busy entries of the requested calendars, in request order.
RECURSIVE extract_busy_periods(_, _)
extract_busy_periods(ids, calendars_data) ==
    IF ids = <<>> THEN <<>>
    ELSE LET calendar_id == Head(ids)
             calendar_busy == IF calendar_id \in DOMAIN calendars_data
                              THEN calendars_data[calendar_id].busy
                              ELSE <<>>
         IN [i \in DOMAIN calendar_busy |->
                [start |-> calendar_busy[i].start, end |-> calendar_busy[i].end,
                 calendar_id |-> calendar_id]]
            \o extract_busy_periods(Tail(ids), calendars_data)

\* Lines 101-113: the dictionary get_availability returns.
result_dict(slots, busy, hs, he, days, range_start, range_end) ==
    [free_slots |-> slots,
     busy_periods |-> busy,
     working_hours |-> [start |-> hs, end |-> he, days |-> days],
     date_range |-> [start |-> isoformat(range_start), end |-> isoformat(range_end)]]

result_of(slots) ==
    result_dict(slots, busy_periods', working_hours_start(args), working_hours_end(args),
                working_days, start_time, end_time)

\* The invocations that run concurrently, and the locals of one that has
\* not started.
Invocations == {1, 2}

NewFrame ==
    [pc |-> "idle", args |-> None, today |-> 0, working_days |-> <<>>,
     calendar_ids |-> <<>>, start_time |-> None, end_time |-> None,
     calendars_data |-> None, busy_periods |-> <<>>, working_slots |-> <<>>,
     free_slots |-> <<>>, outcome |-> NoOutcome]

\* routes.py, create_tool_response: the tool's result becomes a successful
\* ToolResponse, a ValueError status 400, any other exception status 500.
create_tool_response(o) ==
    IF o.kind = "returned"
    THEN [status |-> 200, success |-> TRUE, data |-> o.result]
    ELSE IF o.type = "ValueError"
    THEN [status |-> 400, success |-> FALSE, detail |-> o.message]
    ELSE [status |-> 500, success |-> FALSE, detail |-> o.message]

\* The webhook before a request has arrived.
NoRequest == [pc |-> "idle"]

Init ==
    /\ pc = "idle"
    /\ args = None
    /\ working_days = <<>>
    /\ calendar_ids = <<>>
    /\ start_time = None
    /\ end_time = None
    /\ freebusy_result = None
    /\ busy_periods = <<>>
    /\ working_slots = <<>>
    /\ free_slots = <<>>
    /\ selected_busy = <<>>
    /\ outcome = NoOutcome
    /\ response = None
    /\ frames = [i \in Invocations |-> NewFrame]
    /\ trial = [pc |-> "idle"]
    /\ webhook = NoRequest

\* Lines 39-57 for the arguments a, called on the day `today`.
validate_and_default(a, today) ==
    /\ args' = a
    /\ IF hours_invalid(working_hours_start(a), working_hours_end(a))
       THEN /\ outcome' = Raised("ValueError", HoursMessage, "")
            /\ response' = create_tool_response(outcome')
            /\ pc' = "done"
            /\ UNCHANGED <<working_days, calendar_ids, start_time, end_time>>
       ELSE IF days_invalid(default_working_days(a))
       THEN /\ outcome' = Raised("ValueError", DaysMessage, "")
            /\ response' = create_tool_response(outcome')
            /\ pc' = "done"
            /\ working_days' = default_working_days(a)
            /\ UNCHANGED <<calendar_ids, start_time, end_time>>
       ELSE /\ working_days' = default_working_days(a)
            /\ calendar_ids' = default_calendar_ids(a)
            /\ start_time' = default_start_time(a, today)
            /\ end_time' = default_end_time(a, today)
            /\ pc' = "query"
            /\ UNCHANGED <<outcome, response>>

\* Lines 39-72: validation, defaults, and the freebusy request goes out.
get_availability_call ==
    /\ pc = "idle"
    /\ \E a \in Arguments, today \in TodayInputs : validate_and_default(a, today)
    /\ UNCHANGED <<freebusy_result, busy_periods, working_slots, free_slots,
                   selected_busy, frames, trial, webhook>>

\* Line 72: the freebusy request fails; line 116 wraps the error.
freebusy_raises ==
    /\ pc = "query"
    /\ outcome' = Raised("Exception", FailedMessage, "HttpError")
    /\ response' = create_tool_response(outcome')
    /\ pc' = "done"
    /\ UNCHANGED <<args, working_days, calendar_ids, start_time, end_time,
                   freebusy_result, busy_periods, working_slots, free_slots,
                   selected_busy, frames, trial, webhook>>

\* Lines 72-116 for the answer calendars_data of the freebusy request.
compute_availability(calendars_data) ==
    /\ pc' = "done"
    /\ freebusy_result' = Some(calendars_data)
    /\ busy_periods' = extract_busy_periods(calendar_ids, calendars_data)
    /\ LET generated == generate_working_hours_slots(
                            start_time, end_time, working_hours_start(args),
                            working_hours_end(args), working_days, args.time_zone)
           filtered == filter_busy_periods(generated.slots, busy_periods', <<>>)
       IN IF ~generated.ok
          THEN /\ outcome' = Raised("Exception", FailedMessage, generated.exc)
               /\ UNCHANGED <<working_slots, free_slots, selected_busy>>
          ELSE IF ~filtered.ok
          THEN /\ outcome' = Raised("Exception", FailedMessage, filtered.exc)
               /\ working_slots' = generated.slots
               /\ UNCHANGED <<free_slots, selected_busy>>
          ELSE /\ working_slots' = generated.slots
               /\ selected_busy' = sorted_overlapping_busy(generated.slots, busy_periods')
               /\ free_slots' = with_durations(filtered.free_slots)
               /\ outcome' = Returned(result_of(free_slots'))
    /\ response' = create_tool_response(outcome')
    /\ UNCHANGED <<args, working_days, calendar_ids, start_time, end_time, frames,
                   trial, webhook>>

\* Lines 72-116: the freebusy request answers and the free slots are computed.
freebusy_returns ==
    /\ pc = "query"
    /\ \E tagged \in TaggedAnswers : compute_availability(AnswerOf(tagged))

Next ==
    \/ get_availability_call
    \/ freebusy_raises
    \/ freebusy_returns

Spec == Init /\ [][Next]_vars

\* ------------------------------------------------ concurrent invocations
\* vapi_webhook.py gathers the tool calls of one request, and the endpoint
\* serves requests side by side: several invocations of get_availability,
\* each with its own locals, advance in any order.
single == <<pc, args, working_days, calendar_ids, start_time, end_time,
            freebusy_result, busy_periods, working_slots, free_slots, selected_busy,
            outcome, response>>

\* The arguments of the concurrent invocations: with and without a range
\* start, a range end and working days.
ConcurrentArguments ==
    {[calendar_ids |-> Some(<<"team", "primary">>), start_time |-> s, end_time |-> e,
      working_hours_start |-> None, working_hours_end |-> None,
      working_days |-> d, time_zone |-> None] :
        s \in {None, Some(Aware(At(0, 12, 0), 0))},
        e \in {None, Some(Aware(At(MaxDay, 12, 1), 0))},
        d \in {None, Some(<<5, 3>>)}}

\* The answers of the source to them: no busy period; two that overlap, of
\* two calendars; one whose start is no timestamp.
ConcurrentAnswers ==
    {<<>>,
     <<(<<"primary", Busy(At(0, 10, 0), At(0, 12, 0))>>),
       (<<"team", Busy(At(0, 10, 0), At(1, 10, 0))>>)>>,
     <<(<<"primary", [start |-> Malformed, end |-> Z(At(0, 12, 0))]>>)>>}

\* Lines 39-116 run alone: what get_availability(a) called on the day
\* `today` returns or raises when the freebusy request answers `answer`
\* (None: the request fails).
availability_alone(a, today, answer) ==
    IF hours_invalid(working_hours_start(a), working_hours_end(a))
    THEN Raised("ValueError", HoursMessage, "")
    ELSE IF days_invalid(default_working_days(a))
    THEN Raised("ValueError", DaysMessage, "")
    ELSE IF ~answer.some THEN Raised("Exception", FailedMessage, "HttpError")
    ELSE LET busy == extract_busy_periods(default_calendar_ids(a), answer.val)
             generated == generate_working_hours_slots(
                              default_start_time(a, today), default_end_time(a, today),
                              working_hours_start(a), working_hours_end(a),
                              default_working_days(a), a.time_zone)
             filtered == filter_busy_periods(generated.slots, busy, <<>>)
         IN IF ~generated.ok THEN Raised("Exception", FailedMessage, generated.exc)
            ELSE IF ~filtered.ok THEN Raised("Exception", FailedMessage, filtered.exc)
            ELSE Returned(result_dict(
                     with_durations(filtered.free_slots), busy,
                     working_hours_start(a), working_hours_end(a),
                     default_working_days(a), default_start_time(a, today),
                     default_end_time(a, today)))

\* Mutation of bind_busy_periods: busy_periods is a module-level name, so
\* the assignment is seen by every invocation.
bind_busy_periods_globally(fs, i, busy) ==
    [j \in DOMAIN fs |-> [fs[j] EXCEPT !.busy_periods = busy]]

\* Lines 75-85: busy_periods is a local of the invocation, bound to a new list.
bind_busy_periods(fs, i, busy) == [fs EXCEPT ![i].busy_periods = busy]

\* Lines 39-57 in the invocation i.
invoke(i, a, today) ==
    IF hours_invalid(working_hours_start(a), working_hours_end(a))
    THEN frames' = [frames EXCEPT ![i].args = a, ![i].today = today, ![i].pc = "done",
                       ![i].outcome = Raised("ValueError", HoursMessage, "")]
    ELSE IF days_invalid(default_working_days(a))
    THEN frames' = [frames EXCEPT ![i].args = a, ![i].today = today, ![i].pc = "done",
                       ![i].working_days = default_working_days(a),
                       ![i].outcome = Raised("ValueError", DaysMessage, "")]
    ELSE frames' = [frames EXCEPT ![i].args = a, ![i].today = today, ![i].pc = "query",
                       ![i].working_days = default_working_days(a),
                       ![i].calendar_ids = default_calendar_ids(a),
                       ![i].start_time = default_start_time(a, today),
                       ![i].end_time = default_end_time(a, today)]

concurrent_call ==
    /\ \E i \in Invocations :
           /\ frames[i].pc = "idle"
           /\ \E a \in ConcurrentArguments, today \in TodayInputs : invoke(i, a, today)
    /\ UNCHANGED <<single, trial, webhook>>

\* Line 72 raises in an invocation; line 116 wraps the error.
concurrent_freebusy_raises ==
    /\ \E i \in Invocations :
           /\ frames[i].pc = "query"
           /\ frames' = [frames EXCEPT ![i].pc = "done",
                             ![i].outcome = Raised("Exception", FailedMessage, "HttpError")]
    /\ UNCHANGED <<single, trial, webhook>>

\* Lines 72-85 in an invocation: the answer arrives, the busy periods are
\* copied from it.
concurrent_freebusy_returns ==
    /\ \E i \in Invocations :
           /\ frames[i].pc = "query"
           /\ \E tagged \in ConcurrentAnswers :
                  frames' = [bind_busy_periods(
                                 frames, i,
                                 extract_busy_periods(frames[i].calendar_ids, AnswerOf(tagged)))
                             EXCEPT ![i].calendars_data = Some(AnswerOf(tagged)),
                                    ![i].pc = "extracted"]
    /\ UNCHANGED <<single, trial, webhook>>

\* Lines 88-90 in an invocation.
concurrent_generate ==
    /\ \E i \in Invocations :
           /\ frames[i].pc = "extracted"
           /\ LET f == frames[i]
                  generated == generate_working_hours_slots(
                                   f.start_time, f.end_time, working_hours_start(f.args),
                                   working_hours_end(f.args), f.working_days, f.args.time_zone)
              IN IF generated.ok
                 THEN frames' = [frames EXCEPT ![i].working_slots = generated.slots,
                                    ![i].pc = "generated"]
                 ELSE frames' = [frames EXCEPT ![i].pc = "done",
                                    ![i].outcome = Raised("Exception", FailedMessage,
                                                          generated.exc)]
    /\ UNCHANGED <<single, trial, webhook>>

\* Line 93 in an invocation.
concurrent_filter ==
    /\ \E i \in Invocations :
           /\ frames[i].pc = "generated"
           /\ LET f == frames[i]
                  filtered == filter_busy_periods(f.working_slots, f.busy_periods, <<>>)
              IN IF filtered.ok
                 THEN frames' = [frames EXCEPT ![i].free_slots = filtered.free_slots,
                                    ![i].pc = "filtered"]
                 ELSE frames' = [frames EXCEPT ![i].pc = "done",
                                    ![i].outcome = Raised("Exception", FailedMessage,
                                                          filtered.exc)]
    /\ UNCHANGED <<single, trial, webhook>>

\* Lines 95-113 in an invocation: the durations, and the result.
concurrent_return ==
    /\ \E i \in Invocations :
           /\ frames[i].pc = "filtered"
           /\ LET f == frames[i]
              IN frames' = [frames EXCEPT
                     ![i].free_slots = with_durations(f.free_slots),
                     ![i].pc = "done",
                     ![i].outcome = Returned(result_dict(
                         with_durations(f.free_slots), f.busy_periods,
                         working_hours_start(f.args), working_hours_end(f.args),
                         f.working_days, f.start_time, f.end_time))]
    /\ UNCHANGED <<single, trial, webhook>>

ConcurrentNext ==
    \/ concurrent_call
    \/ concurrent_freebusy_raises
    \/ concurrent_freebusy_returns
    \/ concurrent_generate
    \/ concurrent_filter
    \/ concurrent_return

ConcurrentSpec == Init /\ [][ConcurrentNext]_vars

\* ------------------------------------- _filter_busy_periods, called twice
\* One working slot and two busy lists, one made from the other, are given
\* to _filter_busy_periods; the free slots of both calls are kept.
Offset(wall, off) == [kind |-> "offset", wall |-> wall, off |-> off]

\* Working slots as the generator writes them: a whole day 09:00-17:00, one
\* cut at 12:00, one cut at 11:00.
TrialSlots ==
    {[start |-> Offset(At(0, 9, 0), 0), end |-> Offset(At(0, 17, 0), 0)],
     [start |-> Offset(At(0, 12, 0), 0), end |-> Offset(At(0, 17, 0), 0)],
     [start |-> Offset(At(0, 9, 0), 0), end |-> Offset(At(0, 11, 0), 0)]}

\* Busy entries: 10:00-12:00; the same written with the offset +09:00;
\* 10:00-11:00 (same start, other end); 11:00-16:59:30; one of zero length;
\* one whose end is before its start.
TrialEntries ==
    {Busy(At(0, 10, 0), At(0, 12, 0)),
     [start |-> Offset(At(0, 19, 0), 9), end |-> Offset(At(0, 21, 0), 9)],
     Busy(At(0, 10, 0), At(0, 11, 0)),
     Busy(At(0, 11, 0), BeforeFive(0)),
     Busy(At(0, 11, 0), At(0, 11, 0)),
     Busy(At(0, 12, 0), At(0, 10, 0))}

TrialLists == UNION {[1..n -> TrialEntries] : n \in 0..MaxBusy}

\* The orders the list busy can arrive in.
Reorderings(busy) ==
    {[i \in DOMAIN busy |-> busy[p[i]]] :
        p \in {q \in [DOMAIN busy -> DOMAIN busy] :
                  \A i, j \in DOMAIN busy : q[i] = q[j] => i = j}}

\* The list busy with the entry b put in before position k.
Inserted(busy, b, k) == SubSeq(busy, 1, k - 1) \o <<b>> \o SubSeq(busy, k, Len(busy))

\* Lines 166-210 for one slot, with the durations of lines 95-99.
free_slots_of(slot, busy) ==
    with_durations(filter_busy_periods(<<slot>>, busy, <<>>).free_slots)

Tried(relation, slot, busy, added, other) ==
    [pc |-> "done", relation |-> relation, slot |-> slot, busy |-> busy,
     added |-> added, other |-> other, free_slots |-> free_slots_of(slot, busy),
     other_free_slots |-> free_slots_of(slot, other)]

\* The same busy periods arrive in another order.
filter_permuted ==
    /\ trial.pc = "idle"
    /\ \E slot \in TrialSlots, busy \in TrialLists :
           \E other \in Reorderings(busy) :
               trial' = Tried("permuted", slot, busy, None, other)
    /\ UNCHANGED <<single, frames, webhook>>

\* One more busy period arrives, somewhere in the list.
filter_extended ==
    /\ trial.pc = "idle"
    /\ \E slot \in TrialSlots, busy \in TrialLists, b \in TrialEntries :
           \E k \in 1..(Len(busy) + 1) :
               trial' = Tried("extended", slot, busy, Some(b), Inserted(busy, b, k))
    /\ UNCHANGED <<single, frames, webhook>>

TrialNext ==
    \/ filter_permuted
    \/ filter_extended

TrialSpec == Init /\ [][TrialNext]_vars

\* ------------------------------------------------------ the Vapi webhook
\* vapi_webhook.py: one request carries a list of tool calls; each becomes
\* a task running process_tool_call, the tasks are gathered, and the results
\* are answered as one response.
MaxCalls == 2

\* get_availability.py lines 5-14: the parameters get_availability accepts.
Parameters ==
    {"service", "calendar_ids", "start_time", "end_time", "working_hours_start",
     "working_hours_end", "working_days", "time_zone"}

\* models.py lines 34-43: the fields of GetAvailabilityRequest.
Fields ==
    {"user_email", "calendar_ids", "start_time", "end_time", "working_hours_start",
     "working_hours_end", "working_days", "time_zone"}

\* vapi_webhook.py lines 47-53: the registered tools.
TOOL_REGISTRY == {"check_availability"}

\* The text of function.arguments: no JSON at all, a JSON array, or a JSON
\* object; an object is written as a record of its keys, None for a key it
\* does not have.
InvalidJson == [json |-> "invalid", object |-> None]
JsonArray == [json |-> "array", object |-> None]
JsonObject(o) == [json |-> "object", object |-> Some(o)]

NoKeys == [k \in Fields |-> None]

\* Objects: no key; user_email alone; with hours 9-17; with the hour 24;
\* with the working day 7.
ArgumentObjects ==
    {NoKeys,
     [NoKeys EXCEPT !.user_email = Some("agent@example.com")],
     [NoKeys EXCEPT !.user_email = Some("agent@example.com"),
                    !.working_hours_start = Some(9), !.working_hours_end = Some(17)],
     [NoKeys EXCEPT !.user_email = Some("agent@example.com"),
                    !.working_hours_start = Some(24), !.working_hours_end = Some(17)],
     [NoKeys EXCEPT !.user_email = Some("agent@example.com"),
                    !.working_days = Some(<<7>>)]}

ToolCallIds == {"call_a", "call_b"}

ToolCalls ==
    {[id |-> id, name |-> "check_availability", arguments |-> x] :
        id \in ToolCallIds,
        x \in {InvalidJson, JsonArray} \cup {JsonObject(o) : o \in ArgumentObjects}}
    \cup
    {[id |-> id, name |-> "book_appointment",
      arguments |-> JsonObject([NoKeys EXCEPT !.user_email = Some("agent@example.com")])] :
        id \in ToolCallIds}

ToolCallLists == UNION {[1..n -> ToolCalls] : n \in 0..MaxCalls}

\* ToolCallResult with an error, and with a result.
ErrorResult(tool_call, error) ==
    [tool_call_id |-> tool_call.id, name |-> tool_call.name,
     result |-> None, error |-> Some(error)]
ToolResult(tool_call, result) ==
    [tool_call_id |-> tool_call.id, name |-> tool_call.name,
     result |-> Some(result), error |-> None]

\* models.py lines 34-43, request_model(**arguments): user_email is
\* required, the hours are within 0..23 when given.
validated_request(o) ==
    /\ o.user_email.some
    /\ o.working_hours_start.some => o.working_hours_start.val \in 0..23
    /\ o.working_hours_end.some => o.working_hours_end.val \in 0..23

\* Line 108, model_dump(exclude_unset=True): the fields the arguments set.
model_dump(o) == {k \in Fields : o[k].some}

\* Lines 121-131: the calendar service joins the keyword arguments.
tool_kwargs(o) == model_dump(o) \cup {"service"}

\* The arguments get_availability is bound to by the keyword arguments of
\* an object o.
bound_arguments(o) ==
    [calendar_ids |-> o.calendar_ids, start_time |-> o.start_time,
     end_time |-> o.end_time, working_hours_start |-> o.working_hours_start,
     working_hours_end |-> o.working_hours_end, working_days |-> o.working_days,
     time_zone |-> o.time_zone]

\* Lines 133-156: the call tool_func(**tool_kwargs).  A keyword that is no
\* parameter of the function is a TypeError; otherwise the function runs
\* and its result is serialized.  Every exception ends at line 158.
execute_tool(tool_call, o, answer) ==
    IF ~(tool_kwargs(o) \subseteq Parameters)
    THEN ErrorResult(tool_call, "Tool execution failed: TypeError")
    ELSE LET o_ == availability_alone(bound_arguments(o), 0, answer)
         IN IF o_.kind = "returned"
            THEN ToolResult(tool_call, o_.result)
            ELSE ErrorResult(tool_call, "Tool execution failed: " \o o_.type)

\* Lines 58-168 for one tool call, with the calendar service initialised or
\* not, and the answer the calendar source would give.  A JSON array
\* passes json.loads, and arguments.keys() of line 93 raises AttributeError.
process_tool_call(service, answer, tool_call) ==
    IF tool_call.name \notin TOOL_REGISTRY
    THEN ErrorResult(tool_call, "Unknown tool: " \o tool_call.name)
    ELSE IF tool_call.arguments.json = "invalid"
    THEN ErrorResult(tool_call, "Invalid JSON in arguments")
    ELSE IF tool_call.arguments.json = "array"
    THEN ErrorResult(tool_call, "Tool execution failed: AttributeError")
    ELSE IF ~validated_request(tool_call.arguments.object.val)
    THEN ErrorResult(tool_call, "Argument validation failed")
    ELSE IF ~service
    THEN ErrorResult(tool_call, "Calendar service not available")
    ELSE execute_tool(tool_call, tool_call.arguments.object.val, answer)

\* Mutation of gather: the results in the order the tasks finished.
gather_as_completed(tasks, finished) == [k \in DOMAIN finished |-> tasks[finished[k]].val]

\* Line 220, asyncio.gather: the results in the order of the tasks.
gather(tasks, finished) == [i \in DOMAIN tasks |-> tasks[i].val]

\* ServerMessageResponseToolCalls with results, and with an error.
ResultsResponse(results) == [results |-> Some(results), error |-> None]
ErrorResponse(error) == [results |-> None, error |-> Some(error)]

\* The answers of the calendar source: the request fails; no busy period.
WebhookAnswers == {None, Some(<<>>)}

\* Lines 175-217: a request arrives.  Without tool calls it is answered at
\* once with an error; otherwise one task per tool call is created.
vapi_webhook_handler ==
    /\ webhook.pc = "idle"
    /\ \E list \in ToolCallLists, service \in BOOLEAN, answer \in WebhookAnswers :
           webhook' =
               [pc |-> IF Len(list) = 0 THEN "done" ELSE "gather",
                tool_call_list |-> list, service |-> service, answer |-> answer,
                tasks |-> [i \in DOMAIN list |-> None], finished |-> <<>>,
                response |-> IF Len(list) = 0
                             THEN Some(ErrorResponse("No tool calls found in request"))
                             ELSE None]
    /\ UNCHANGED <<single, frames, trial>>

\* Lines 58-168: one of the gathered tasks runs process_tool_call.
run_task ==
    /\ webhook.pc = "gather"
    /\ \E i \in DOMAIN webhook.tasks :
           /\ ~webhook.tasks[i].some
           /\ webhook' =
                  [webhook EXCEPT
                      !.tasks[i] = Some(process_tool_call(
                                       webhook.service, webhook.answer,
                                       webhook.tool_call_list[i])),
                      !.finished = Append(@, i)]
    /\ UNCHANGED <<single, frames, trial>>

\* Lines 220-250: every task has finished and the response is made.
respond ==
    /\ webhook.pc = "gather"
    /\ \A i \in DOMAIN webhook.tasks : webhook.tasks[i].some
    /\ webhook' =
           [webhook EXCEPT
               !.pc = "done",
               !.response = Some(ResultsResponse(gather(webhook.tasks, webhook.finished)))]
    /\ UNCHANGED <<single, frames, trial>>

WebhookNext ==
    \/ vapi_webhook_handler
    \/ run_task
    \/ respond

WebhookSpec == Init /\ [][WebhookNext]_vars

\* ----------------------------------------------------------------- claims
\* The point in time a timestamp of a result denotes.
T(s) == IF s.kind = "naive" THEN s.wall ELSE s.wall - s.off * HourTicks

WellFormedBusy(b) == b.start.kind # "bad" /\ b.end.kind # "bad"
ProperBusy(b) == WellFormedBusy(b) /\ T(b.start) < T(b.end)

HasReturned == outcome.kind = "returned"
ResultFree == outcome.result.free_slots
ResultBusy == outcome.result.busy_periods

\* Window w and busy entry b share time by the test of the overlap selection.
Selected(b, w) == T(b.start) < T(w.end) /\ T(b.end) > T(w.start)

\* C1 (no-overlap): in every returned result no free slot intersects a busy
\* period b with b.start < b.end: f.end <= b.start or f.start >= b.end.
C1_NoOverlap ==
    HasReturned =>
        \A i \in DOMAIN ResultFree, j \in DOMAIN ResultBusy :
            ProperBusy(ResultBusy[j]) =>
                \/ T(ResultFree[i].end) <= T(ResultBusy[j].start)
                \/ T(ResultFree[i].start) >= T(ResultBusy[j].end)

\* A result with free slots whose busy periods come from both calendars, one
\* of them spanning two working windows, another nested in a third.
C1_Witness ==
    /\ HasReturned
    /\ Len(ResultFree) >= 2
    /\ \E j \in DOMAIN ResultBusy, v, w \in DOMAIN working_slots :
          /\ v # w
          /\ ProperBusy(ResultBusy[j])
          /\ Selected(ResultBusy[j], working_slots[v])
          /\ Selected(ResultBusy[j], working_slots[w])
    /\ \E j, k \in DOMAIN ResultBusy :
          /\ ResultBusy[j].calendar_id # ResultBusy[k].calendar_id
          /\ ProperBusy(ResultBusy[j]) /\ ProperBusy(ResultBusy[k])
          /\ T(ResultBusy[j].start) < T(ResultBusy[k].start)
          /\ T(ResultBusy[k].end) < T(ResultBusy[j].end)

\* C2: a busy-period timestamp that cannot be parsed makes the request fail:
\* no result is returned whose busy periods hold a malformed timestamp.
C2_MalformedBusyFails ==
    HasReturned => \A j \in DOMAIN ResultBusy : WellFormedBusy(ResultBusy[j])

\* C3 (ordering): in every returned result consecutive free slots satisfy
\* free_slots[i].end <= free_slots[i+1].start.
C3_Ordering ==
    HasReturned =>
        \A i \in DOMAIN ResultFree :
            i < Len(ResultFree) => T(ResultFree[i].end) <= T(ResultFree[i + 1].start)

\* The ticks at which the cover of window w by free slots and busy periods
\* can change, and the ticks just before them: the cover of every other
\* tick of the window equals that of one of these.
Boundaries(w) ==
    {T(w.start), T(w.end)}
    \cup {T(ResultFree[i].start) : i \in DOMAIN ResultFree}
    \cup {T(ResultFree[i].end) : i \in DOMAIN ResultFree}
    \cup {T(ResultBusy[j].start) : j \in DOMAIN ResultBusy}
    \cup {T(ResultBusy[j].end) : j \in DOMAIN ResultBusy}
SampleTicks(w) ==
    {t \in Boundaries(w) \cup {p - 1 : p \in Boundaries(w)} :
        T(w.start) <= t /\ t < T(w.end)}

Within(f, w) == T(w.start) <= T(f.start) /\ T(f.end) <= T(w.end)
FreeAt(t, w) ==
    \E i \in DOMAIN ResultFree :
        Within(ResultFree[i], w) /\ T(ResultFree[i].start) <= t /\ t < T(ResultFree[i].end)
BusyAt(t) ==
    \E j \in DOMAIN ResultBusy : T(ResultBusy[j].start) <= t /\ t < T(ResultBusy[j].end)

\* C4 (completeness): every tick of every working window lies in a free slot
\* emitted for the window or in a busy period, and every free slot lies in a
\* working window, so free and busy time together are exactly the window.
C4_Completeness ==
    HasReturned =>
        /\ \A w \in DOMAIN working_slots :
              \A t \in SampleTicks(working_slots[w]) :
                  FreeAt(t, working_slots[w]) \/ BusyAt(t)
        /\ \A i \in DOMAIN ResultFree :
              \E w \in DOMAIN working_slots : Within(ResultFree[i], working_slots[w])

\* A result over two windows or more with a window that is partly busy and
\* partly free, and a busy period that reaches outside its window.
C4_Witness ==
    /\ HasReturned
    /\ Len(working_slots) >= 2
    /\ \E w \in DOMAIN working_slots :
          /\ \E t \in SampleTicks(working_slots[w]) :
                BusyAt(t) /\ ~FreeAt(t, working_slots[w])
          /\ \E t \in SampleTicks(working_slots[w]) :
                FreeAt(t, working_slots[w]) /\ ~BusyAt(t)
          /\ \E j \in DOMAIN ResultBusy :
                /\ ProperBusy(ResultBusy[j])
                /\ Selected(ResultBusy[j], working_slots[w])
                /\ T(ResultBusy[j].end) > T(working_slots[w].end)

\* C5 as stated: every free slot of a returned result has
\* duration_minutes >= 1.
C5_DurationAtLeastOne ==
    HasReturned => \A i \in DOMAIN ResultFree : ResultFree[i].duration_minutes >= 1

\* C5 amended: duration_minutes is never negative, and it is at least 1 for
\* every free slot that lasts one minute or longer.
C5_DurationOfWholeMinutes ==
    HasReturned =>
        \A i \in DOMAIN ResultFree :
            /\ ResultFree[i].duration_minutes >= 0
            /\ T(ResultFree[i].end) - T(ResultFree[i].start) >= MinuteTicks
                   => ResultFree[i].duration_minutes >= 1

\* A result with a free slot shorter than a minute (duration 0) left between
\* the end of a busy period and the end of its window, next to a slot of a
\* minute or more.
C5_Witness ==
    /\ HasReturned
    /\ \E i, k \in DOMAIN ResultFree :
          /\ T(ResultFree[i].end) - T(ResultFree[i].start) < MinuteTicks
          /\ ResultFree[i].duration_minutes = 0
          /\ \E j \in DOMAIN ResultBusy : T(ResultBusy[j].end) = T(ResultFree[i].start)
          /\ ResultFree[k].duration_minutes >= 1

\* C6 (well-formedness): every free slot of a returned result has
\* start < end and duration_minutes = floor((end - start) / one minute).
C6_WellFormed ==
    HasReturned =>
        \A i \in DOMAIN ResultFree :
            /\ T(ResultFree[i].start) < T(ResultFree[i].end)
            /\ ResultFree[i].duration_minutes * MinuteTicks
                   <= T(ResultFree[i].end) - T(ResultFree[i].start)
            /\ T(ResultFree[i].end) - T(ResultFree[i].start)
                   < (ResultFree[i].duration_minutes + 1) * MinuteTicks

\* A result in which a busy period ends exactly at the end of its window, so
\* that the cursor equals the window end, and in which a free slot is not a
\* whole number of minutes long.
C6_Witness ==
    /\ HasReturned
    /\ \E w \in DOMAIN working_slots, j \in DOMAIN ResultBusy :
          /\ ProperBusy(ResultBusy[j])
          /\ Selected(ResultBusy[j], working_slots[w])
          /\ T(ResultBusy[j].end) = T(working_slots[w].end)
    /\ \E i \in DOMAIN ResultFree :
          /\ ResultFree[i].duration_minutes >= 1
          /\ ResultFree[i].duration_minutes * MinuteTicks
                 < T(ResultFree[i].end) - T(ResultFree[i].start)

\* The call named both range bounds, as datetimes that can be compared, and
\* the end is not after the start.
EmptyRangeRequested ==
    /\ pc # "idle"
    /\ args.start_time.some /\ args.end_time.some
    /\ args.start_time.val.aware = args.end_time.val.aware
    /\ Instant(args.end_time.val) <= Instant(args.start_time.val)

\* C7: a request with range_end <= range_start is rejected and returns no
\* result.
C7_EmptyRangeRejected == EmptyRangeRequested => ~HasReturned

\* C8: every busy interval that takes part in the free-slot computation of a
\* returned result, i.e. is selected for some working window, has start < end.
C8_BusyStartBeforeEnd ==
    HasReturned =>
        \A w \in DOMAIN working_slots, j \in DOMAIN busy_periods :
            Selected(busy_periods[j], working_slots[w])
                => T(busy_periods[j].start) < T(busy_periods[j].end)

HoursOutOfOrder == pc # "idle" /\ working_hours_start(args) >= working_hours_end(args)

\* C9: a call with working_hours_start >= working_hours_end raises ValueError
\* with the working-hours message, not wrapped, and nothing else happens.
C9_InvalidHoursRaise ==
    HoursOutOfOrder =>
        /\ pc = "done"
        /\ outcome = [kind |-> "raised", type |-> "ValueError", cause |-> "",
                      message |-> "working_hours_start must be less than working_hours_end"]
        /\ freebusy_result = None

\* Equal hours together with invalid working days: the hours error is raised.
C9_Witness ==
    /\ HoursOutOfOrder
    /\ outcome.kind = "raised"
    /\ outcome.type = "ValueError"
    /\ working_hours_start(args) = working_hours_end(args)
    /\ args.working_days = Some(<<0, 7>>)

DayOutOfRange ==
    /\ pc # "idle"
    /\ args.working_days.some
    /\ \E i \in DOMAIN args.working_days.val : args.working_days.val[i] \notin 0..6

RaisedDaysError ==
    /\ pc = "done"
    /\ outcome.kind = "raised"
    /\ outcome.type = "ValueError"
    /\ outcome.message
           = "working_days must contain values between 0-6 (Monday=0, Sunday=6)"
    /\ freebusy_result = None

\* C10 as stated: a call whose working_days holds a value outside 0..6
\* raises ValueError with the working-days message.
C10_InvalidDaysRaise == DayOutOfRange => RaisedDaysError

\* C10 amended: the same, for calls with
\* working_hours_start < working_hours_end.
C10_InvalidDaysRaiseWhenHoursValid ==
    (DayOutOfRange /\ working_hours_start(args) < working_hours_end(args))
        => RaisedDaysError

\* A list with a valid and an invalid value, and a list with a negative one.
C10_Witness ==
    /\ DayOutOfRange
    /\ RaisedDaysError
    /\ args.working_days \in {Some(<<0, 7>>), Some(<<-1>>)}
    /\ working_hours_start(args) < working_hours_end(args)

\* The call failed on a busy entry whose timestamp does not parse.
ParseFailure ==
    /\ pc = "done"
    /\ outcome.kind = "raised"
    /\ outcome.cause = "ValueError"
    /\ \E i \in DOMAIN busy_periods : ~WellFormedBusy(busy_periods[i])

\* C11: at the endpoint a failure caused by invalid parameters or by a busy
\* timestamp that does not parse is answered with a status in 400..499, and
\* a status in 500..599 answers only the other failures.
C11_ClientErrorsAnswered4xx ==
    (HoursOutOfOrder \/ DayOutOfRange \/ ParseFailure)
        => response.status \in 400..499

\* The wall clock reading, in the zone of the request (UTC when there is
\* none), of the point in time t, and its calendar day.
LocalWall(t) ==
    t + (IF args.time_zone.some THEN utcoffset(args.time_zone.val) ELSE 0) * HourTicks
LocalDay(t) == LocalWall(t) \div DayTicks

\* The calendar days, in the zone of the request, the interval iv lies on.
DaysOf(iv) == {LocalDay(T(iv.start)), LocalDay(T(iv.end) - 1)}

\* C12: working windows are generated, and free slots lie, only on calendar
\* days (in the zone of the request) whose weekday is in working_days,
\* whatever the busy periods; with the default working days none lies on a
\* Saturday or a Sunday.
C12_WorkingDaysOnly ==
    (pc = "done" /\ outcome.kind # "raised") =>
        \A iv \in SeqToSet(working_slots) \cup SeqToSet(ResultFree) :
            \A d \in DaysOf(iv) :
                /\ \E i \in DOMAIN working_days : working_days[i] = weekday(d)
                /\ ~args.working_days.some => weekday(d) \notin {5, 6}

\* Default working days, a range over a weekend (days 2 and 3), busy periods
\* supplied, free slots before the weekend and after it.
C12_Witness ==
    /\ HasReturned
    /\ ~args.working_days.some
    /\ busy_periods # <<>>
    /\ \E i, j \in DOMAIN ResultFree :
           /\ LocalDay(T(ResultFree[i].start)) < 2
           /\ LocalDay(T(ResultFree[j].start)) > 3

\* C13: every free slot of a returned result lies within the working hours
\* of one calendar day d of the zone of the request,
\* d@working_hours_start <= start < end <= d@working_hours_end, and within
\* the requested range [start_time, end_time].
C13_WithinWorkingHours ==
    HasReturned =>
        \A i \in DOMAIN ResultFree :
            LET f == ResultFree[i]
                d == LocalDay(T(f.start))
            IN /\ At(d, outcome.result.working_hours.start, 0) <= LocalWall(T(f.start))
               /\ T(f.start) < T(f.end)
               /\ LocalWall(T(f.end)) <= At(d, outcome.result.working_hours.end, 0)
               /\ Instant(start_time) <= T(f.start)
               /\ T(f.end) <= Instant(end_time)

\* A request in a zone other than UTC whose range ends within the working
\* hours of a day of that zone: a free slot runs to the range end.
C13_Witness ==
    /\ HasReturned
    /\ args.time_zone.some
    /\ \E j \in DOMAIN ResultFree :
           /\ T(ResultFree[j].end) = Instant(end_time)
           /\ LocalWall(Instant(end_time)) % DayTicks < At(0, 17, 0)
           /\ LocalWall(Instant(end_time)) % DayTicks > At(0, 9, 0)

\* The reference for window w: the busy periods merged into disjoint blocks
\* (the maximal runs of busy time within the window), and what is left of
\* the window once the blocks are taken out, as maximal intervals.
Points(w) ==
    {t \in {T(w.start), T(w.end)}
            \cup {T(ResultBusy[j].start) : j \in DOMAIN ResultBusy}
            \cup {T(ResultBusy[j].end) : j \in DOMAIN ResultBusy} :
        T(w.start) <= t /\ t <= T(w.end)}

MergedBlocks(w) ==
    {blk \in Points(w) \X Points(w) :
        /\ blk[1] < blk[2]
        /\ \A p \in Points(w) : (blk[1] <= p /\ p < blk[2]) => BusyAt(p)
        /\ blk[1] = T(w.start) \/ ~BusyAt(blk[1] - 1)
        /\ blk[2] = T(w.end) \/ ~BusyAt(blk[2])}

ReferenceFree(w) ==
    {iv \in Points(w) \X Points(w) :
        /\ iv[1] < iv[2]
        /\ \A blk \in MergedBlocks(w) : blk[2] <= iv[1] \/ iv[2] <= blk[1]
        /\ iv[1] = T(w.start) \/ \E blk \in MergedBlocks(w) : blk[2] = iv[1]
        /\ iv[2] = T(w.end) \/ \E blk \in MergedBlocks(w) : blk[1] = iv[2]}

\* The free slots the result holds for window w.
EmittedFor(w) == {i \in DOMAIN ResultFree : Within(ResultFree[i], w)}

SameAsReference(w) ==
    /\ {<<T(ResultFree[i].start), T(ResultFree[i].end)>> : i \in EmittedFor(w)}
           = ReferenceFree(w)
    /\ Cardinality(EmittedFor(w)) = Cardinality(ReferenceFree(w))

\* C14: for every working window and every list of busy periods, the free
\* slots of the sorted pass with cursor := max(cursor, busy_end) are exactly
\* those of the reference that merges the busy periods into disjoint blocks
\* and subtracts the blocks from the window.
C14_MergeEquivalence ==
    HasReturned => \A w \in DOMAIN working_slots : SameAsReference(working_slots[w])

\* The same, for results all of whose busy periods have start < end.
MergeEquivalenceOfProperBusy ==
    (HasReturned /\ \A j \in DOMAIN ResultBusy : ProperBusy(ResultBusy[j]))
        => \A w \in DOMAIN working_slots : SameAsReference(working_slots[w])

\* No busy period of the result shares time with window w.
Idle(w) == \A j \in DOMAIN ResultBusy : ~Selected(ResultBusy[j], w)

\* C15: a working window no busy period overlaps gets exactly one free slot,
\* equal to the whole window (duration_minutes = 480 for a window of
\* 09:00-17:00); hence a result with a working window and without busy
\* periods has free slots.
C15_IdleWindowIsOneSlot ==
    HasReturned =>
        /\ \A w \in DOMAIN working_slots :
              Idle(working_slots[w]) =>
                  \E i \in DOMAIN ResultFree :
                      /\ EmittedFor(working_slots[w]) = {i}
                      /\ ResultFree[i].start = working_slots[w].start
                      /\ ResultFree[i].end = working_slots[w].end
                      /\ T(ResultFree[i].end) - T(ResultFree[i].start) = 8 * HourTicks
                             => ResultFree[i].duration_minutes = 480
        /\ (ResultBusy = <<>> /\ working_slots # <<>>) => ResultFree # <<>>

\* Busy periods in one window of 09:00-17:00 and none in another.
C15_Witness ==
    /\ HasReturned
    /\ \E v, w \in DOMAIN working_slots :
           /\ ~Idle(working_slots[v])
           /\ Idle(working_slots[w])
           /\ \E i \in EmittedFor(working_slots[w]) :
                  ResultFree[i].duration_minutes = 480

\* Busy period b covers the whole of window w.
Covers(b, w) == T(b.start) <= T(w.start) /\ T(b.end) >= T(w.end)

\* The list s without its j-th element.
Without(s, j) == [i \in 1..(Len(s) - 1) |-> IF i < j THEN s[i] ELSE s[i + 1]]

\* The free slots of the result that lie in window w, in their order.
RECURSIVE SlotsIn(_, _)
SlotsIn(slots, w) ==
    IF slots = <<>> THEN <<>>
    ELSE IF Within(Head(slots), w) THEN <<Head(slots)>> \o SlotsIn(Tail(slots), w)
    ELSE SlotsIn(Tail(slots), w)

\* The free slots of window w alone, computed from the busy periods busy.
AloneFor(w, busy) == with_durations(filter_busy_periods(<<w>>, busy, <<>>).free_slots)

\* C16: a window some busy period covers whole (the exact match included)
\* gets no free slot, and every window that busy period shares no time with
\* gets the free slots it gets without that busy period.
C16_CoveredWindowHasNoSlot ==
    HasReturned =>
        \A w \in DOMAIN working_slots, j \in DOMAIN ResultBusy :
            Covers(ResultBusy[j], working_slots[w]) =>
                /\ EmittedFor(working_slots[w]) = {}
                /\ \A v \in DOMAIN working_slots :
                       ~Selected(ResultBusy[j], working_slots[v]) =>
                           SlotsIn(ResultFree, working_slots[v])
                               = AloneFor(working_slots[v], Without(ResultBusy, j))

\* The busy period that is exactly 09:00-17:00 of day 0, in a result with
\* free slots in another window.
C16_Witness ==
    /\ HasReturned
    /\ \E w \in DOMAIN working_slots, j \in DOMAIN ResultBusy :
           /\ T(ResultBusy[j].start) = T(working_slots[w].start)
           /\ T(ResultBusy[j].end) = T(working_slots[w].end)
           /\ T(working_slots[w].end) - T(working_slots[w].start) = 8 * HourTicks
           /\ EmittedFor(working_slots[w]) = {}
    /\ ResultFree # <<>>

\* Busy period b only touches a boundary of window w.
Touches(b, w) == T(b.start) = T(w.end) \/ T(b.end) = T(w.start)

\* C17: a busy period that only touches a boundary of a working window is
\* not selected for the window, and the free slots of the window are those
\* obtained without that busy period.
C17_TouchingBusyIsNotSelected ==
    HasReturned =>
        \A w \in DOMAIN working_slots, j \in DOMAIN ResultBusy :
            Touches(ResultBusy[j], working_slots[w]) =>
                /\ \A k \in DOMAIN selected_busy[w] :
                       selected_busy[w][k] # <<parse_datetime(ResultBusy[j].start),
                                               parse_datetime(ResultBusy[j].end)>>
                /\ SlotsIn(ResultFree, working_slots[w])
                       = AloneFor(working_slots[w], Without(ResultBusy, j))

\* A window that a busy period touches and another busy period overlaps,
\* with a free slot.
C17_Witness ==
    /\ HasReturned
    /\ \E w \in DOMAIN working_slots, j \in DOMAIN ResultBusy :
           /\ Touches(ResultBusy[j], working_slots[w])
           /\ T(ResultBusy[j].start) < T(ResultBusy[j].end)
           /\ selected_busy[w] # <<>>
           /\ EmittedFor(working_slots[w]) # {}

\* The result's working_hours and date_range.
EchoedHours == outcome.result.working_hours
EchoedRange == outcome.result.date_range

\* C18: omitted working hours are 9 and 17, omitted working days are
\* [0,1,2,3,4], an omitted range start is 00:00 UTC of the day of the call,
\* an omitted range end is the range start plus 7 days; working_hours and
\* date_range of the result are the values applied, supplied or defaulted.
C18_Defaults ==
    HasReturned =>
        /\ EchoedHours.start
               = (IF args.working_hours_start.some THEN args.working_hours_start.val ELSE 9)
        /\ EchoedHours.end
               = (IF args.working_hours_end.some THEN args.working_hours_end.val ELSE 17)
        /\ EchoedHours.days
               = (IF args.working_days.some THEN args.working_days.val ELSE <<0, 1, 2, 3, 4>>)
        /\ IF args.start_time.some
           THEN EchoedRange.start = isoformat(args.start_time.val)
           ELSE \E today \in TodayInputs :
                    EchoedRange.start = [kind |-> "offset", wall |-> today * DayTicks, off |-> 0]
        /\ IF args.end_time.some
           THEN EchoedRange.end = isoformat(args.end_time.val)
           ELSE EchoedRange.end
                    = [EchoedRange.start EXCEPT !.wall = EchoedRange.start.wall + 7 * DayTicks]
        /\ EchoedRange = [start |-> isoformat(start_time), end |-> isoformat(end_time)]
        /\ EchoedHours.days = working_days

\* A call with a range start of 12:00 and nothing else: hours, days and
\* range end are defaulted, and the result has free slots.
C18_Witness ==
    /\ HasReturned
    /\ args.start_time = Some(Aware(At(0, 12, 0), 0))
    /\ ~args.end_time.some
    /\ ~args.working_hours_start.some
    /\ ~args.working_hours_end.some
    /\ ~args.working_days.some
    /\ EchoedRange.end.wall = At(7, 12, 0)
    /\ ResultFree # <<>>

\* Two invocations have finished, called with the same arguments, an
\* explicit range start among them, and answered alike by the source.
SameInputs ==
    /\ \A i \in Invocations : frames[i].pc = "done"
    /\ frames[1].args = frames[2].args
    /\ frames[1].args.start_time.some
    /\ frames[1].calendars_data = frames[2].calendars_data

\* C19: two invocations with identical inputs (explicit range, hours, days,
\* zone, and the same busy periods from the source) produce identical
\* outputs: the same free slots in the same order with the same durations
\* and the same busy_periods echo, whenever and in whatever order they run.
C19_Determinism == SameInputs => frames[1].outcome = frames[2].outcome

\* Both called with the 12:00 range start on different days, both answered
\* with the two overlapping busy periods, both returned free slots.
C19_Witness ==
    /\ SameInputs
    /\ frames[1].today # frames[2].today
    /\ frames[1].outcome.kind = "returned"
    /\ Len(frames[1].outcome.result.busy_periods) = 2
    /\ frames[1].outcome.result.free_slots # <<>>
    /\ frames[2].outcome.result.free_slots # <<>>

\* What the invocation i was given: its arguments, the day of its call, the
\* answer of the source.
InputsOf(i) == <<frames[i].args, frames[i].today, frames[i].calendars_data>>

\* A step leaves alone the locals of all invocations but one, the inputs of
\* an invocation once it has them, and the outcome of one that has finished.
StepIsLocal ==
    /\ \E i \in Invocations : \A j \in Invocations \ {i} : frames'[j] = frames[j]
    /\ \A i \in Invocations :
           /\ frames[i].pc # "idle" =>
                  /\ frames'[i].args = frames[i].args
                  /\ frames'[i].today = frames[i].today
           /\ frames[i].calendars_data.some =>
                  frames'[i].calendars_data = frames[i].calendars_data
           /\ frames[i].pc = "done" => frames'[i].outcome = frames[i].outcome

\* C20: under every interleaving of the invocations each one ends with the
\* result it gives when run alone on its inputs, and no step changes the
\* inputs or the outcome of another invocation.
C20_NoInterference ==
    /\ [](\A i \in Invocations :
             frames[i].pc = "done" =>
                 frames[i].outcome
                     = availability_alone(frames[i].args, frames[i].today,
                                          frames[i].calendars_data))
    /\ [][StepIsLocal]_vars

\* One invocation has returned free slots around its two busy periods while
\* the other, answered without busy periods, is in the middle of its work.
C20_Witness ==
    /\ frames[1].pc = "done"
    /\ frames[1].outcome.kind = "returned"
    /\ Len(frames[1].outcome.result.busy_periods) = 2
    /\ frames[1].outcome.result.free_slots # <<>>
    /\ frames[2].pc = "generated"
    /\ frames[2].busy_periods = <<>>
    /\ frames[2].args # frames[1].args

\* Free slot f of window w cannot be made longer: each of its ends is an end
\* of the window or has busy time next to it.
Maximal(f, w) ==
    /\ T(f.start) = T(w.start) \/ BusyAt(T(f.start) - 1)
    /\ T(f.end) = T(w.end) \/ BusyAt(T(f.end))

MaximalSlots(w) ==
    /\ \A i \in EmittedFor(w) : Maximal(ResultFree[i], w)
    /\ \A i, j \in EmittedFor(w) :
           i < j => T(ResultFree[i].end) < T(ResultFree[j].start)

\* C21: every free slot is a maximal busy-free part of its working window:
\* each endpoint is a boundary of the window or of a busy period that covers
\* time next to it, and within a window free_slots[i].end <
\* free_slots[i+1].start.
C21_Maximality ==
    HasReturned => \A w \in DOMAIN working_slots : MaximalSlots(working_slots[w])

\* The same, for results all of whose busy periods have start < end.
MaximalityOfProperBusy ==
    (HasReturned /\ \A j \in DOMAIN ResultBusy : ProperBusy(ResultBusy[j]))
        => \A w \in DOMAIN working_slots : MaximalSlots(working_slots[w])

\* The generator has run: the call returned, or failed after it.
Generated == pc = "done" /\ (HasReturned \/ working_slots # <<>>)

\* The point in time of d @ hour o'clock in the zone of the request.
LocalHour(d, hour) ==
    At(d, hour, 0)
        - (IF args.time_zone.some THEN utcoffset(args.time_zone.val) ELSE 0) * HourTicks

Larger(x, y) == IF x >= y THEN x ELSE y
Smaller(x, y) == IF x <= y THEN x ELSE y

\* max(d@hour_start, range_start) and min(d@hour_end, range_end).
ClampedStart(d) == Larger(LocalHour(d, working_hours_start(args)), Instant(start_time))
ClampedEnd(d) == Smaller(LocalHour(d, working_hours_end(args)), Instant(end_time))

\* The working days among the calendar days of the range.
WorkingDaysOfRange ==
    {d \in date(start_time)..date(end_time) :
        \E i \in DOMAIN working_days : working_days[i] = weekday(d)}

\* C22: every working window is, for a working day d of the range,
\* [max(d@hour_start, range_start), min(d@hour_end, range_end)] with
\* start < end; a day whose clamped window is empty or inverted has none.
C22_WindowClamping ==
    Generated =>
        /\ \A w \in DOMAIN working_slots :
               /\ T(working_slots[w].start) < T(working_slots[w].end)
               /\ \E d \in WorkingDaysOfRange :
                      /\ T(working_slots[w].start) = ClampedStart(d)
                      /\ T(working_slots[w].end) = ClampedEnd(d)
        /\ \A d \in WorkingDaysOfRange :
               (ClampedStart(d) < ClampedEnd(d))
                   <=> \E w \in DOMAIN working_slots :
                           /\ T(working_slots[w].start) = ClampedStart(d)
                           /\ T(working_slots[w].end) = ClampedEnd(d)

\* A window cut at the range start, and a working day of the range whose
\* clamped window is inverted and that has no window.
C22_Witness ==
    /\ HasReturned
    /\ \E w \in DOMAIN working_slots, d \in WorkingDaysOfRange :
           /\ T(working_slots[w].start) = Instant(start_time)
           /\ LocalHour(d, working_hours_start(args)) < Instant(start_time)
           /\ T(working_slots[w].end) = ClampedEnd(d)
    /\ \E d \in WorkingDaysOfRange :
           /\ ClampedStart(d) > ClampedEnd(d)
           /\ \A w \in DOMAIN working_slots : T(working_slots[w].end) < ClampedEnd(d)

\* C23: the generator puts out at most one window per calendar day, in
\* chronological order and without overlap: windows[i].end <=
\* windows[i+1].start, and the next window is on a later day of the zone of
\* the request.
C23_WindowsOrdered ==
    Generated =>
        \A i \in DOMAIN working_slots :
            i < Len(working_slots) =>
                /\ T(working_slots[i].end) <= T(working_slots[i + 1].start)
                /\ LocalDay(T(working_slots[i].start))
                       < LocalDay(T(working_slots[i + 1].start))

\* A request in a zone other than UTC with windows before and after a
\* weekend.
C23_Witness ==
    /\ HasReturned
    /\ args.time_zone.some
    /\ Len(working_slots) >= 3
    /\ \E i \in DOMAIN working_slots :
           /\ i < Len(working_slots)
           /\ LocalDay(T(working_slots[i + 1].start))
                  > LocalDay(T(working_slots[i].start)) + 1

\* The intervals of a list of free slots, as points in time.
Intervals(slots) == [i \in DOMAIN slots |-> <<T(slots[i].start), T(slots[i].end)>>]

Permuted == trial.pc = "done" /\ trial.relation = "permuted"

\* C24: the free slots do not depend on the order in which the busy periods
\* arrive: the same busy periods in another order (as from another order of
\* calendar_ids) give the same free_slots, also when two busy periods share
\* the start and differ in the end.
C24_OrderIndependent == Permuted => trial.free_slots = trial.other_free_slots

\* The same, for the intervals of the free slots as points in time.
OrderIndependentIntervals ==
    Permuted => Intervals(trial.free_slots) = Intervals(trial.other_free_slots)

\* The busy entries the source answered for calendar c, none when the
\* answer does not hold c.
Answered(c) ==
    IF c \in DOMAIN freebusy_result.val THEN freebusy_result.val[c].busy ELSE <<>>

\* The entries of the result tagged with calendar c, in their order, without
\* the tag.
RECURSIVE EchoOf(_, _)
EchoOf(busy, c) ==
    IF busy = <<>> THEN <<>>
    ELSE IF Head(busy).calendar_id = c
         THEN <<[start |-> Head(busy).start, end |-> Head(busy).end]>>
                  \o EchoOf(Tail(busy), c)
         ELSE EchoOf(Tail(busy), c)

PlaceOf(c) == CHOOSE i \in DOMAIN calendar_ids : calendar_ids[i] = c

\* C25: busy_periods of a returned result is the concatenation, in the order
\* of calendar_ids, of the entries the source answered for each requested
\* calendar, each tagged with its calendar id: nothing merged, removed,
\* reordered or clipped, and nothing for a calendar the answer does not hold.
C25_BusyEcho ==
    HasReturned =>
        /\ ResultBusy = busy_periods
        /\ \A j \in DOMAIN ResultBusy :
               \E i \in DOMAIN calendar_ids : calendar_ids[i] = ResultBusy[j].calendar_id
        /\ \A i \in DOMAIN calendar_ids :
               EchoOf(ResultBusy, calendar_ids[i]) = Answered(calendar_ids[i])
        /\ \A j, k \in DOMAIN ResultBusy :
               j < k => PlaceOf(ResultBusy[j].calendar_id) <= PlaceOf(ResultBusy[k].calendar_id)

\* Calendars team and primary are requested in this order, the source
\* answers overlapping busy periods for both, and there are free slots.
C25_Witness ==
    /\ HasReturned
    /\ calendar_ids = <<"team", "primary">>
    /\ Len(ResultBusy) = 2
    /\ ResultBusy[1].calendar_id = "team"
    /\ ResultBusy[2].calendar_id = "primary"
    /\ T(ResultBusy[2].start) < T(ResultBusy[1].end)
    /\ T(ResultBusy[1].start) < T(ResultBusy[2].end)
    /\ ResultFree # <<>>

\* Nothing past the validation has happened: no request to the source, no
\* busy period, no window, no slot, no result.
NothingComputed ==
    /\ pc = "done"
    /\ outcome.kind = "raised"
    /\ outcome.type = "ValueError"
    /\ freebusy_result = None
    /\ calendar_ids = <<>> /\ start_time = None /\ end_time = None
    /\ busy_periods = <<>> /\ working_slots = <<>> /\ free_slots = <<>>

\* C26: a call that fails the validation of working hours or working days
\* never reaches the calendar source and computes no window and no slot;
\* when both the hours and the days are invalid the working-hours error is
\* raised.
C26_FailFast ==
    /\ (HoursOutOfOrder \/ DayOutOfRange) => NothingComputed
    /\ (HoursOutOfOrder /\ DayOutOfRange) => outcome.message = HoursMessage

\* Reversed hours together with a negative working day.
C26_Witness ==
    /\ HoursOutOfOrder
    /\ DayOutOfRange
    /\ working_hours_start(args) > working_hours_end(args)
    /\ args.working_days = Some(<<-1>>)
    /\ NothingComputed

\* The point in time t lies in the working hours of a working day of the
\* zone of the request.
InWorkingHours(t) ==
    /\ \E i \in DOMAIN working_days : working_days[i] = weekday(LocalDay(t))
    /\ At(LocalDay(t), working_hours_start(args), 0) <= LocalWall(t)
    /\ LocalWall(t) < At(LocalDay(t), working_hours_end(args), 0)

\* The points in time of the range at which being in working hours, busy or
\* free can change: between two of them next to each other nothing changes.
RangePoints ==
    {t \in {Instant(start_time)}
            \cup {LocalHour(d, h) : d \in (date(start_time) - 1)..(date(end_time) + 1),
                                   h \in {working_hours_start(args), working_hours_end(args)}}
            \cup {T(ResultBusy[j].start) : j \in DOMAIN ResultBusy}
            \cup {T(ResultBusy[j].end) : j \in DOMAIN ResultBusy}
            \cup {T(ResultFree[i].start) : i \in DOMAIN ResultFree}
            \cup {T(ResultFree[i].end) : i \in DOMAIN ResultFree} :
        Instant(start_time) <= t /\ t < Instant(end_time)}

InFreeSlot(t) ==
    \E i \in DOMAIN ResultFree : T(ResultFree[i].start) <= t /\ t < T(ResultFree[i].end)

\* C27: every instant of [start_time, end_time) that lies in the working
\* hours of a working day of the zone of the request and in no busy period
\* lies in a free slot, also when the calendar date of that day differs
\* from the dates of start_time and end_time.
C27_LocalWorkingTimeCovered ==
    HasReturned =>
        \A t \in RangePoints : (InWorkingHours(t) /\ ~BusyAt(t)) => InFreeSlot(t)

\* The same, for requests that name no time zone.
LocalWorkingTimeCoveredInUTC ==
    (HasReturned /\ ~args.time_zone.some) =>
        \A t \in RangePoints : (InWorkingHours(t) /\ ~BusyAt(t)) => InFreeSlot(t)

\* A busy period with start < end was added to the list.
Extended ==
    /\ trial.pc = "done"
    /\ trial.relation = "extended"
    /\ ProperBusy(trial.added.val)

CoveredBy(t, slots) ==
    \E i \in DOMAIN slots : T(slots[i].start) <= t /\ t < T(slots[i].end)

\* The points in time at which the cover by either list of free slots can
\* change.
TrialPoints ==
    {T(trial.free_slots[i].start) : i \in DOMAIN trial.free_slots}
    \cup {T(trial.free_slots[i].end) : i \in DOMAIN trial.free_slots}
    \cup {T(trial.other_free_slots[i].start) : i \in DOMAIN trial.other_free_slots}
    \cup {T(trial.other_free_slots[i].end) : i \in DOMAIN trial.other_free_slots}

\* C28: adding a busy period with start < end creates no free time: every
\* instant in a free slot of the longer list is in a free slot of the
\* shorter one; adding a busy period the list holds already leaves
\* free_slots as it is.
C28_Monotone ==
    Extended =>
        /\ \A t \in TrialPoints :
               CoveredBy(t, trial.other_free_slots) => CoveredBy(t, trial.free_slots)
        /\ (\E j \in DOMAIN trial.busy : trial.busy[j] = trial.added.val)
               => trial.other_free_slots = trial.free_slots

\* The same, with the free slots compared as intervals of points in time.
MonotoneIntervals ==
    Extended =>
        /\ \A t \in TrialPoints :
               CoveredBy(t, trial.other_free_slots) => CoveredBy(t, trial.free_slots)
        /\ (\E j \in DOMAIN trial.busy : trial.busy[j] = trial.added.val)
               => Intervals(trial.other_free_slots) = Intervals(trial.free_slots)


\* ------------------------------------------------------------ the webhook
\* A request with at least one tool call has been answered.
Responded == webhook.pc = "done" /\ Len(webhook.tool_call_list) >= 1
Results == webhook.response.val.results.val

\* The failures of a tool call that are decided before the tool runs: the
\* tool is not registered, the arguments are no JSON object, a required key
\* is missing or an hour is out of 0..23, the calendar service is missing.
FailsBeforeTheTool(call) ==
    \/ call.name # "check_availability"
    \/ call.arguments.json # "object"
    \/ ~call.arguments.object.val.user_email.some
    \/ \E k \in {"working_hours_start", "working_hours_end"} :
           /\ call.arguments.object.val[k].some
           /\ call.arguments.object.val[k].val \notin 0..23
    \/ ~webhook.service

ValidCall(call) ==
    /\ call.name = "check_availability"
    /\ call.arguments.json = "object"
    /\ call.arguments.object.val.user_email.some
    /\ \A k \in {"working_hours_start", "working_hours_end"} :
           call.arguments.object.val[k].some => call.arguments.object.val[k].val \in 0..23

\* C30: with the calendar service initialised and the calendar query
\* succeeding, a valid check_availability call is answered with the
\* serialized result and no error.
C30_ValidCallYieldsResult ==
    (Responded /\ webhook.service /\ webhook.answer.some) =>
        \A i \in DOMAIN webhook.tool_call_list :
            ValidCall(webhook.tool_call_list[i]) =>
                Results[i].result.some /\ ~Results[i].error.some

====
